---------------------------- MODULE Spec2Model ----------------------------
(***************************************************************************)
(* A model of the Object-remover web application: the App component (image *)
(* history, removal requests, surgical compositing) and the CanvasEditor   *)
(* component (mask canvas, strokes, deferred mask export).                 *)
(*                                                                         *)
(* Source: src/components/CanvasEditor.tsx (CanvasEditor lines 1-332, App  *)
(* lines 335-560, types lines 1055-1081), src/unnamed/part_000 (Header,    *)
(* Controls), src/unnamed/part_001 and src/services/geminiService.ts.      *)
(***************************************************************************)
EXTENDS Integers, Sequences, FiniteSets, TLC

(***************************************************************************)
(* Variables of compositeSurgicalResult (one call of it).                  *)
(***************************************************************************)
VARIABLES
    originalImg,   \* decoded bitmap of originalSrc: a sequence of pixels (one row)
    aiImg,         \* decoded bitmap of aiResultSrc
    maskImg,       \* decoded bitmap of maskSrc
    imgStatus,     \* per image: "pending", "loaded" (onload ran) or "error" (onerror ran)
    loadedCount,   \* the closure's loadedCount
    ctxAcquired,   \* the 2D contexts getContext returned non-null for
    promise,       \* "pending", "resolved" or "rejected"
    resolved       \* the bitmap the promise resolved with (<<>> before)

compVars == <<originalImg, aiImg, maskImg, imgStatus, loadedCount,
              ctxAcquired, promise, resolved>>

(***************************************************************************)
(* Variables of the App component.                                         *)
(***************************************************************************)
VARIABLES
    originalImage,      \* state.originalImage
    currentImage,       \* state.currentImage
    maskDataUrl,        \* state.maskDataUrl
    history,            \* state.history
    isProcessing,       \* state.isProcessing
    redoStack,          \* redoStack
    cooldownRemaining,  \* cooldownRemaining
    readers,            \* files whose FileReader has not fired onload yet
    calls               \* the handleRemove calls suspended at an await: a
                        \* sequence of frames [pc, currentOriginal, currentMask, args]

appVars == <<originalImage, currentImage, maskDataUrl, history, isProcessing,
             redoStack, cooldownRemaining, readers, calls>>

(***************************************************************************)
(* Observer of undo/redo round trips (not program state).                  *)
(***************************************************************************)
VARIABLES
    rtPhase,   \* "off", "undo" (in a run of undos) or "redo" (redoing that run)
    rtSnap,    \* <<history, currentImage, redoStack>> before the run's first undo
    rtUndos,   \* undos of the run
    rtRedos    \* redos that followed them

rtVars == <<rtPhase, rtSnap, rtUndos, rtRedos>>

(***************************************************************************)
(* Variables of the observer of the mask's life: which strokes and exports *)
(* date from before the last clearing of the mask.                         *)
(***************************************************************************)
VARIABLES
    staleStroke,   \* the active stroke began before the mask was last cleared
    staleExports,  \* scheduled exports of strokes begun before the last clear
    ideal          \* the columns painted white since the last clear and not
                   \* erased since (followed by SpecRepaint only)

obsVars == <<staleStroke, staleExports, ideal>>

(***************************************************************************)
(* Variables of the CanvasEditor component (one axis of the image: sizes   *)
(* are widths, points are pixel columns).                                  *)
(***************************************************************************)
VARIABLES
    toolMode,       \* state.toolMode of App, the editor's prop
    isDrawing,      \* isDrawing
    isPanning,      \* isPanning
    lastPoint,      \* lastPoint: a natural-space point, 0 for null
    lastPanPoint,   \* lastPanPoint: a screen point, 0 for null
    naturalSize,    \* naturalSize.width, also the mask canvas's width attribute
    canvas,         \* the mask canvas's pixels, one value 0..255 per column
    path,           \* the canvas context's current path: the points given to
                    \* moveTo and draw since beginPath
    exportTimers,   \* endInteraction's 50 ms timeouts not yet fired
    imageLoads,     \* images of useEffect([imageUrl]) not yet loaded
    zoom,           \* zoom, in halves: 2 is zoom 1, 5 is zoom 2.5, 10 is zoom 5
    offset,         \* offset.x, in CSS pixels
    displaySize,    \* displaySize.width, in CSS pixels
    maskLoads       \* mask images of the sync effect not yet loaded, each
                    \* <<maskUrl, width to draw it at>>

viewVars == <<zoom, offset, displaySize>>

editorVars == <<toolMode, isDrawing, isPanning, lastPoint, lastPanPoint,
                naturalSize, canvas, path, exportTimers, imageLoads, maskLoads,
                viewVars>>

(***************************************************************************)
(* Variables of one call of callWithRetry(fn, maxRetries), and of its      *)
(* observer (fnLog, waits).                                                *)
(***************************************************************************)
VARIABLES
    tier,         \* which callWithRetry: "services" (services/geminiService.ts)
                  \* or "free" (the free-tier version)
    maxRetries,   \* the parameter maxRetries
    retryPc,      \* "idle" (not called), "loop" (at the loop's test), "fn"
                  \* (awaiting fn()), "sleep" (awaiting sleep(waitTime)),
                  \* "returned" or "thrown"
    retryI,       \* the loop's i
    lastError,    \* lastError (Undefined before the first catch)
    waitTime,     \* waitTime of the sleep under way, in milliseconds
    retryResult,  \* the value returned or the error thrown
    fnLog,        \* observer: how each invocation of fn settled, in order
    waits         \* observer: the sleeps that ended, in order

retryVars == <<tier, maxRetries, retryPc, retryI, lastError, waitTime,
               retryResult, fnLog, waits>>

(***************************************************************************)
(* Observer of where a mask comes from (not program state; followed by     *)
(* SpecOrigin only).                                                       *)
(***************************************************************************)
VARIABLES
    strokeImage,   \* currentImage when the active stroke began
    timerImages,   \* per scheduled export, the image its stroke was painted
                   \* on, NullImage when the image changed during the stroke
    maskImage      \* the image the stroke behind maskDataUrl was painted on

originVars == <<strokeImage, timerImages, maskImage>>

vars == <<compVars, appVars, rtVars, editorVars, obsVars, retryVars, originVars>>

(***************************************************************************)
(* Bounds and sample inputs of the compositing model.  A bitmap is one row *)
(* of pixels <<r, g, b, a>>, channels 0..255, as getImageData returns it   *)
(* (a fully transparent pixel reads back as <<0,0,0,0>>).                   *)
(***************************************************************************)
OrigW == 2
MaxSrcW == 2

Red == <<255, 0, 0, 255>>
Blue == <<0, 0, 255, 255>>
Black == <<0, 0, 0, 255>>
White == <<255, 255, 255, 255>>

OrigPixels == {Red, <<10, 200, 30, 128>>}
AiPixels == {Blue, <<40, 50, 60, 100>>}
MaskPixels == {Black, White, <<128, 128, 128, 255>>, <<1, 0, 0, 255>>,
               <<255, 255, 254, 255>>}

ImageNames == {"original", "ai", "mask"}
ContextNames == {"ctx", "mCtx", "fCtx"}

Bitmaps(pixels, maxW) == UNION {[1..w -> pixels] : w \in 1..maxW}

(***************************************************************************)
(* Canvas arithmetic.                                                      *)
(***************************************************************************)
\* x / y rounded to the nearest integer (x >= 0, y > 0).
RoundDiv(x, y) == (2 * x + y) \div (2 * y)

\* What a canvas holds for a pixel: no colour without alpha.
Norm(p) == IF p[4] = 0 THEN <<0, 0, 0, 0>> ELSE p

\* drawImage(img, 0, 0, w, h): the source resampled to w pixels (nearest sample).
Resample(img, w) == [i \in 1..w |-> img[((i - 1) * Len(img)) \div w + 1]]

\* pixels[i+3] = (r + g + b) / 3, stored into a Uint8ClampedArray (rounds).
DeriveAlpha(p) == <<p[1], p[2], p[3], RoundDiv(p[1] + p[2] + p[3], 3)>>

\* globalCompositeOperation = 'destination-in': the destination kept where
\* the source is opaque, its alpha multiplied by the source's alpha.
DestinationInMutant(dst, src) == Norm(<<src[1], src[2], src[3], RoundDiv(dst[4] * src[4], 255)>>)

DestinationIn(dst, src) == Norm(<<dst[1], dst[2], dst[3], RoundDiv(dst[4] * src[4], 255)>>)

\* globalCompositeOperation = 'source-over' (the default): src drawn over dst.
SourceOverMutant(dst, src) == src

SourceOver(dst, src) ==
    LET as == src[4]
        ad == dst[4]
        \* alpha and colour weights scaled by 255 * 255
        wS == as * 255
        wD == ad * (255 - as)
        ao == wS + wD
        ch(k) == RoundDiv(wS * src[k] + wD * dst[k], ao)
    IN IF ao = 0 THEN <<0, 0, 0, 0>>
       ELSE <<ch(1), ch(2), ch(3), RoundDiv(ao, 255)>>

\* The mask canvas after drawImage(maskImg, ...), the alpha loop and putImageData.
MaskProc(orig, mask) ==
    [i \in 1..Len(orig) |-> DeriveAlpha(Norm(Resample(mask, Len(orig))[i]))]

\* The overlay canvas: the AI result clipped by the processed mask.
FinalOverlay(orig, ai, mask) ==
    [i \in 1..Len(orig) |->
        DestinationIn(Norm(Resample(ai, Len(orig))[i]), MaskProc(orig, mask)[i])]

\* The output canvas: the original with the overlay drawn over it.
Composite(orig, ai, mask) ==
    [i \in 1..Len(orig) |->
        SourceOver(Norm(orig[i]), FinalOverlay(orig, ai, mask)[i])]

(***************************************************************************)
(* compositeSurgicalResult as a state machine: the three images decode in  *)
(* any order, each ending in onload or onerror.                            *)
(***************************************************************************)
CompositeInit ==
    /\ originalImg \in [1..OrigW -> OrigPixels]
    /\ aiImg \in Bitmaps(AiPixels, MaxSrcW)
    /\ maskImg \in Bitmaps(MaskPixels, MaxSrcW)
    /\ imgStatus = [n \in ImageNames |-> "pending"]
    /\ loadedCount = 0
    /\ ctxAcquired = {}
    /\ promise = "pending"
    /\ resolved = <<>>

\* The contexts acquired when getContext fails first for `failing` ("none":
\* all three are acquired): ctx, then mCtx, then fCtx, stopping at a null.
AcquiredBefore(failing) ==
    CASE failing = "ctx" -> {}
      [] failing = "mCtx" -> {"ctx"}
      [] failing = "fCtx" -> {"ctx", "mCtx"}
      [] OTHER -> ContextNames

\* if (loadedCount === 3)
AllLoadedMutant(count) == count >= 2

AllLoaded(count) == count = 3

\* onImageLoaded, run as the onload handler of image n.
OnImageLoaded(n) ==
    /\ imgStatus[n] = "pending"
    /\ imgStatus' = [imgStatus EXCEPT ![n] = "loaded"]
    /\ loadedCount' = loadedCount + 1
    /\ IF AllLoaded(loadedCount + 1)
       THEN \E failing \in ContextNames \cup {"none"} :
               /\ ctxAcquired' = AcquiredBefore(failing)
               /\ IF promise # "pending"
                  THEN UNCHANGED <<promise, resolved>>
                  ELSE IF failing = "none"
                       THEN /\ promise' = "resolved"
                            /\ resolved' = Composite(originalImg, aiImg, maskImg)
                       ELSE /\ promise' = "rejected"
                            /\ UNCHANGED resolved
       ELSE UNCHANGED <<ctxAcquired, promise, resolved>>
    /\ UNCHANGED <<originalImg, aiImg, maskImg>>

\* onerror = reject, run for image n.
OnImageError(n) ==
    /\ imgStatus[n] = "pending"
    /\ imgStatus' = [imgStatus EXCEPT ![n] = "error"]
    /\ promise' = IF promise = "pending" THEN "rejected" ELSE promise
    /\ UNCHANGED <<originalImg, aiImg, maskImg, loadedCount, ctxAcquired, resolved>>

CompositeNext ==
    \/ \E n \in ImageNames : OnImageLoaded(n) /\ UNCHANGED <<appVars, rtVars, editorVars, obsVars, retryVars, originVars>>
    \/ \E n \in ImageNames : OnImageError(n) /\ UNCHANGED <<appVars, rtVars, editorVars, obsVars, retryVars, originVars>>

(***************************************************************************)
(* The App component.  An image (a data URL) is the uploaded file it stems *)
(* from and the masks of the removals composited onto it since; a mask (a  *)
(* data URL of the mask canvas) is the canvas width followed by one row of *)
(* pixel values.  <<>> stands for null in the mask's place.                *)
(***************************************************************************)
MaxFiles == 2
MaxEdits == 2
CooldownSeconds == 60

Files == 1..MaxFiles
NullImage == [src |-> 0, edits |-> <<>>]
NullMask == <<>>

\* The data URL FileReader.readAsDataURL produces for file f.
DataUrlOf(f) == [src |-> f, edits |-> <<>>]

\* The data URL compositeSurgicalResult resolves with.
CompositedImage(orig, mask) == [orig EXCEPT !.edits = Append(@, mask)]

\* Masks the editor may hand to onUpdateMask when it is not modelled itself.
SampleMasks == {<<2, 255, 0>>, <<2, 0, 255>>}

\* Errors removeObject may throw, by error.message.
ErrorKinds == {"SYSTEM_BUSY", "other"}

Front(seq) == SubSeq(seq, 1, Len(seq) - 1)
Last(seq) == seq[Len(seq)]
RemoveAt(seq, i) == SubSeq(seq, 1, i - 1) \o SubSeq(seq, i + 1, Len(seq))

AppInit ==
    /\ originalImage = NullImage
    /\ currentImage = NullImage
    /\ maskDataUrl = NullMask
    /\ history = <<>>
    /\ isProcessing = FALSE
    /\ redoStack = <<>>
    /\ cooldownRemaining = 0
    /\ readers = {}
    /\ calls = <<>>

\* handleUpload: a file was chosen; its FileReader starts.
HandleUpload(f) ==
    /\ readers' = readers \cup {f}
    /\ UNCHANGED <<originalImage, currentImage, maskDataUrl, history,
                   isProcessing, redoStack, cooldownRemaining, calls>>

\* reader.onload of handleUpload.
ReaderOnload(f) ==
    /\ f \in readers
    /\ readers' = readers \ {f}
    /\ originalImage' = DataUrlOf(f)
    /\ currentImage' = DataUrlOf(f)
    /\ maskDataUrl' = NullMask
    /\ history' = <<DataUrlOf(f)>>
    /\ redoStack' = <<>>
    /\ UNCHANGED <<isProcessing, cooldownRemaining, calls>>

\* handleUpdateMask, the editor's onUpdateMask.
HandleUpdateMask(m) ==
    /\ maskDataUrl' = m
    /\ UNCHANGED <<originalImage, currentImage, history, isProcessing,
                   redoStack, cooldownRemaining, readers, calls>>

\* The guard of handleRemove (also the remove button's disabled attribute).
CanRemoveMutant == currentImage # NullImage /\ maskDataUrl # NullMask /\ cooldownRemaining = 0

CanRemoveDuringCooldownMutant ==
    currentImage # NullImage /\ maskDataUrl # NullMask /\ ~isProcessing

CanRemove ==
    /\ currentImage # NullImage
    /\ maskDataUrl # NullMask
    /\ ~isProcessing
    /\ cooldownRemaining = 0

\* handleRemove up to its first await: the snapshot, the lock, the call of
\* removeObject(currentOriginal, currentMask).
HandleRemove ==
    /\ CanRemove
    /\ Len(currentImage.edits) < MaxEdits
    /\ isProcessing' = TRUE
    /\ calls' = Append(calls, [pc |-> "removeObject",
                               currentOriginal |-> currentImage,
                               currentMask |-> maskDataUrl,
                               args |-> <<NullImage, NullMask>>])
    /\ UNCHANGED <<originalImage, currentImage, maskDataUrl, history,
                   redoStack, cooldownRemaining, readers>>

\* The arguments handleRemove passes to compositeSurgicalResult.
CompositeArgsMutant(frame) == <<currentImage, maskDataUrl>>

CompositeArgs(frame) == <<frame.currentOriginal, frame.currentMask>>

\* removeObject resolved: handleRemove goes on to call compositeSurgicalResult.
RemoveObjectResolves(i) ==
    /\ i \in 1..Len(calls)
    /\ calls[i].pc = "removeObject"
    /\ calls' = [calls EXCEPT ![i] = [@ EXCEPT !.pc = "composite",
                                               !.args = CompositeArgs(calls[i])]]
    /\ UNCHANGED <<originalImage, currentImage, maskDataUrl, history,
                   isProcessing, redoStack, cooldownRemaining, readers>>

\* The catch block of handleRemove.
CatchBlockMutant(i, message) ==
    /\ cooldownRemaining' = IF message = "SYSTEM_BUSY" THEN CooldownSeconds
                            ELSE cooldownRemaining
    /\ isProcessing' = FALSE
    /\ currentImage' = calls[i].currentOriginal
    /\ calls' = RemoveAt(calls, i)
    /\ UNCHANGED <<originalImage, maskDataUrl, history, redoStack, readers>>

CatchBlockKeepsLockMutant(i, message) ==
    /\ cooldownRemaining' = IF message = "SYSTEM_BUSY" THEN CooldownSeconds
                            ELSE cooldownRemaining
    /\ calls' = RemoveAt(calls, i)
    /\ UNCHANGED <<originalImage, currentImage, maskDataUrl, history,
                   isProcessing, redoStack, readers>>

CatchBlock(i, message) ==
    /\ cooldownRemaining' = IF message = "SYSTEM_BUSY" THEN CooldownSeconds
                            ELSE cooldownRemaining
    /\ isProcessing' = FALSE
    /\ calls' = RemoveAt(calls, i)
    /\ UNCHANGED <<originalImage, currentImage, maskDataUrl, history,
                   redoStack, readers>>

\* removeObject rejected with an error whose message is `message`.
RemoveObjectRejects(i, message) ==
    /\ i \in 1..Len(calls)
    /\ calls[i].pc = "removeObject"
    /\ CatchBlock(i, message)

\* compositeSurgicalResult rejected (a decode failure or a missing context).
CompositeRejects(i) ==
    /\ i \in 1..Len(calls)
    /\ calls[i].pc = "composite"
    /\ CatchBlock(i, "other")

CompositeResolvesMutant(i) ==
    /\ i \in 1..Len(calls)
    /\ calls[i].pc = "composite"
    /\ LET finalCompositedResult == CompositedImage(calls[i].args[1], calls[i].args[2])
       IN /\ currentImage' = finalCompositedResult
          /\ history' = Append(history, finalCompositedResult)
    /\ maskDataUrl' = NullMask
    /\ isProcessing' = FALSE
    /\ calls' = RemoveAt(calls, i)
    /\ UNCHANGED <<originalImage, redoStack, cooldownRemaining, readers>>

\* compositeSurgicalResult resolved: the rest of handleRemove's try block.
CompositeResolves(i) ==
    /\ i \in 1..Len(calls)
    /\ calls[i].pc = "composite"
    /\ LET finalCompositedResult == CompositedImage(calls[i].args[1], calls[i].args[2])
       IN /\ currentImage' = finalCompositedResult
          /\ history' = Append(history, finalCompositedResult)
    /\ maskDataUrl' = NullMask
    /\ isProcessing' = FALSE
    /\ redoStack' = <<>>
    /\ calls' = RemoveAt(calls, i)
    /\ UNCHANGED <<originalImage, cooldownRemaining, readers>>

\* handleUndo (the undo button is disabled while isProcessing).
HandleUndoMutant ==
    /\ ~isProcessing
    /\ Len(history) > 1
    /\ LET newHistory == Front(history)
           undoneImage == Last(history)
       IN /\ redoStack' = redoStack \o <<undoneImage>>
          /\ currentImage' = Last(newHistory)
          /\ history' = newHistory
    /\ maskDataUrl' = NullMask
    /\ UNCHANGED <<originalImage, isProcessing, cooldownRemaining, readers, calls>>

HandleUndo ==
    /\ ~isProcessing
    /\ Len(history) > 1
    /\ LET newHistory == Front(history)
           undoneImage == Last(history)
       IN /\ redoStack' = <<undoneImage>> \o redoStack
          /\ currentImage' = Last(newHistory)
          /\ history' = newHistory
    /\ maskDataUrl' = NullMask
    /\ UNCHANGED <<originalImage, isProcessing, cooldownRemaining, readers, calls>>

\* handleRedo (the redo button is disabled while isProcessing).
HandleRedoMutant ==
    /\ ~isProcessing
    /\ Len(redoStack) > 0
    /\ redoStack' = Tail(redoStack)
    /\ currentImage' = Head(redoStack)
    /\ maskDataUrl' = NullMask
    /\ UNCHANGED <<originalImage, history, isProcessing, cooldownRemaining, readers, calls>>

HandleRedo ==
    /\ ~isProcessing
    /\ Len(redoStack) > 0
    /\ LET redoneImage == Head(redoStack)
       IN /\ redoStack' = Tail(redoStack)
          /\ currentImage' = redoneImage
          /\ history' = Append(history, redoneImage)
    /\ maskDataUrl' = NullMask
    /\ UNCHANGED <<originalImage, isProcessing, cooldownRemaining, readers, calls>>

\* One tick of the cooldown's one-second interval.
CooldownTick ==
    /\ cooldownRemaining > 0
    /\ cooldownRemaining' = IF cooldownRemaining - 1 > 0 THEN cooldownRemaining - 1 ELSE 0
    /\ UNCHANGED <<originalImage, currentImage, maskDataUrl, history,
                   isProcessing, redoStack, readers, calls>>

\* The CanvasEditor component before any image is set.
NullPoint == 0

EditorInit ==
    /\ toolMode = "BRUSH"
    /\ isDrawing = FALSE
    /\ isPanning = FALSE
    /\ lastPoint = NullPoint
    /\ lastPanPoint = NullPoint
    /\ naturalSize = 0
    /\ canvas = <<>>
    /\ path = <<>>
    /\ exportTimers = 0
    /\ imageLoads = {}
    /\ maskLoads = {}
    /\ zoom = 2
    /\ offset = 0
    /\ displaySize = 0

(***************************************************************************)
(* callWithRetry(fn, maxRetries), in its two versions.  An error is what   *)
(* the catch block reads of it: its status and its message, a sequence of  *)
(* fragments (hasMessage is FALSE when the error has none; status 0 is no  *)
(* status); message.includes(s) is true when s is one of the fragments.    *)
(* The response fn resolves with and undefined are records of that shape.  *)
(***************************************************************************)
MaxRetriesArg == 4

Value(k, status, hasMessage, message) ==
    [kind |-> k, status |-> status, hasMessage |-> hasMessage, message |-> message]

Undefined == Value("undefined", 0, FALSE, <<>>)
Tiers == {"services", "free"}
Responses == {Value("response", 0, FALSE, <<>>)}
Errors ==
    { Value("error", 429, TRUE, <<"Resource exhausted">>),
      Value("error", 0, TRUE, <<"got status", "429">>),
      Value("error", 503, TRUE, <<"Too many requests">>),
      Value("error", 500, TRUE, <<"Internal error">>),
      Value("error", 400, FALSE, <<>>) }
Jitters == {0, 1000, 1999}

DefaultMaxRetries(t) == IF t = "services" THEN 3 ELSE 2

Includes(message, s) == \E k \in 1..Len(message) : message[k] = s

IsRateLimitMutant(t, error) == error.status = 429

\* isRateLimit: error.message?.includes(..) in services/geminiService.ts,
\* (error.message || "").includes(..) in the free-tier version.
IsRateLimit(t, error) ==
    LET errorMsg == IF error.hasMessage THEN error.message ELSE <<>>
    IN IF t = "services"
       THEN \/ error.status = 429
            \/ error.hasMessage /\ Includes(error.message, "429")
            \/ error.hasMessage /\ Includes(error.message, "Too many requests")
       ELSE \/ error.status = 429
            \/ Includes(errorMsg, "429")
            \/ Includes(errorMsg, "Too many requests")

\* isRateLimit && i < maxRetries - 1
ShouldRetry(t, error, i, m) == IsRateLimit(t, error) /\ i < m - 1

WaitTimeMutant(t, i, jitter) ==
    IF t = "services" THEN 2 * (i + 1) * 1000 ELSE (IF i = 0 THEN 10000 ELSE 25000) + jitter

\* waitTime, in milliseconds: Math.pow(2, i + 1) * 1000 in
\* services/geminiService.ts, (i === 0 ? 10000 : 25000) + jitter in the
\* free-tier version, jitter being Math.random() * 2000.
WaitTime(t, i, jitter) ==
    IF t = "services" THEN 2^(i + 1) * 1000 ELSE (IF i = 0 THEN 10000 ELSE 25000) + jitter

\* No call of callWithRetry is under way (the other specifications).
RetryIdle ==
    /\ tier = "services"
    /\ maxRetries = DefaultMaxRetries("services")
    /\ retryPc = "idle"
    /\ retryI = 0
    /\ lastError = Undefined
    /\ waitTime = 0
    /\ retryResult = Undefined
    /\ fnLog = <<>>
    /\ waits = <<>>

\* callWithRetry was called: let lastError; i = 0.
RetryInit ==
    /\ tier \in Tiers
    /\ maxRetries \in 0..MaxRetriesArg
    /\ retryPc = "loop"
    /\ retryI = 0
    /\ lastError = Undefined
    /\ waitTime = 0
    /\ retryResult = Undefined
    /\ fnLog = <<>>
    /\ waits = <<>>

\* i < maxRetries holds: try { return await fn(); } starts fn.
InvokeFn ==
    /\ retryPc = "loop"
    /\ retryI < maxRetries
    /\ retryPc' = "fn"
    /\ UNCHANGED <<tier, maxRetries, retryI, lastError, waitTime, retryResult, fnLog, waits>>

\* i < maxRetries fails: the loop is left and lastError is thrown.
ThrowLastError ==
    /\ retryPc = "loop"
    /\ ~(retryI < maxRetries)
    /\ retryPc' = "thrown"
    /\ retryResult' = lastError
    /\ UNCHANGED <<tier, maxRetries, retryI, lastError, waitTime, fnLog, waits>>

\* fn's promise resolved with v: callWithRetry returns it.
FnResolves(v) ==
    /\ retryPc = "fn"
    /\ retryPc' = "returned"
    /\ retryResult' = v
    /\ fnLog' = Append(fnLog, v)
    /\ UNCHANGED <<tier, maxRetries, retryI, lastError, waitTime, waits>>

\* fn's promise rejected with error: the catch block.
FnRejects(error, jitter) ==
    /\ retryPc = "fn"
    /\ lastError' = error
    /\ fnLog' = Append(fnLog, error)
    /\ IF ShouldRetry(tier, error, retryI, maxRetries)
       THEN /\ waitTime' = WaitTime(tier, retryI, jitter)
            /\ retryPc' = "sleep"
            /\ UNCHANGED retryResult
       ELSE /\ retryPc' = "thrown"
            /\ retryResult' = error
            /\ UNCHANGED waitTime
    /\ UNCHANGED <<tier, maxRetries, retryI, waits>>

\* sleep(waitTime) resolved: continue, i++.
SleepEnds ==
    /\ retryPc = "sleep"
    /\ waits' = Append(waits, waitTime)
    /\ retryI' = retryI + 1
    /\ retryPc' = "loop"
    /\ UNCHANGED <<tier, maxRetries, lastError, waitTime, retryResult, fnLog>>

(***************************************************************************)
(* The App component alone.  The editor is its environment: it may call    *)
(* onUpdateMask with any mask whenever an image is shown.  files, masks    *)
(* and messages are the inputs the environment draws from.                 *)
(***************************************************************************)
RtInit ==
    /\ rtPhase = "off"
    /\ rtSnap = <<>>
    /\ rtUndos = 0
    /\ rtRedos = 0

CompositeIdle ==
    /\ originalImg = <<>>
    /\ aiImg = <<>>
    /\ maskImg = <<>>
    /\ imgStatus = [n \in ImageNames |-> "pending"]
    /\ loadedCount = 0
    /\ ctxAcquired = {}
    /\ promise = "pending"
    /\ resolved = <<>>

\* The state before any upload, with no compositor call and no observed run.
OriginInit ==
    /\ strokeImage = NullImage
    /\ timerImages = <<>>
    /\ maskImage = NullImage

ObsInit ==
    /\ staleStroke = FALSE
    /\ staleExports = 0
    /\ ideal = {}

Init == AppInit /\ EditorInit /\ RtInit /\ CompositeIdle /\ ObsInit /\ RetryIdle /\ OriginInit

\* What a step of App leaves alone when the editor is its environment.
AppAlone == UNCHANGED <<compVars, rtVars, editorVars, obsVars, retryVars, originVars>>

\* SpecApp: the service fails, but never with a rate limit.
NextApp ==
    \/ \E f \in Files : HandleUpload(f) /\ AppAlone
    \/ \E f \in Files : ReaderOnload(f) /\ AppAlone
    \/ \E m \in SampleMasks : currentImage # NullImage /\ HandleUpdateMask(m) /\ AppAlone
    \/ HandleRemove /\ AppAlone
    \/ \E i \in 1..Len(calls) : RemoveObjectResolves(i) /\ AppAlone
    \/ \E i \in 1..Len(calls) : RemoveObjectRejects(i, "other") /\ AppAlone
    \/ \E i \in 1..Len(calls) : CompositeRejects(i) /\ AppAlone
    \/ \E i \in 1..Len(calls) : CompositeResolves(i) /\ AppAlone
    \/ HandleUndo /\ AppAlone
    \/ HandleRedo /\ AppAlone

SpecApp == Init /\ [][NextApp]_vars

\* SpecCooldown: the service may also answer with a rate limit; one mask.
NextCooldown ==
    \/ \E f \in Files : HandleUpload(f) /\ AppAlone
    \/ \E f \in Files : ReaderOnload(f) /\ AppAlone
    \/ currentImage # NullImage /\ HandleUpdateMask(<<2, 255, 0>>) /\ AppAlone
    \/ HandleRemove /\ AppAlone
    \/ \E i \in 1..Len(calls) : RemoveObjectResolves(i) /\ AppAlone
    \/ \E i \in 1..Len(calls), message \in ErrorKinds : RemoveObjectRejects(i, message) /\ AppAlone
    \/ \E i \in 1..Len(calls) : CompositeRejects(i) /\ AppAlone
    \/ \E i \in 1..Len(calls) : CompositeResolves(i) /\ AppAlone
    \/ HandleUndo /\ AppAlone
    \/ HandleRedo /\ AppAlone
    \/ CooldownTick /\ AppAlone

SpecCooldown == Init /\ [][NextCooldown]_vars

\* An await of handleRemove ends: removeObject or compositeSurgicalResult
\* resolves or rejects.
Settles ==
    \E i \in 1..Len(calls) :
        \/ RemoveObjectResolves(i) /\ AppAlone
        \/ \E message \in ErrorKinds : RemoveObjectRejects(i, message) /\ AppAlone
        \/ CompositeRejects(i) /\ AppAlone
        \/ CompositeResolves(i) /\ AppAlone

\* SpecCooldownFair: SpecCooldown where no await of handleRemove stays
\* pending for ever (the service answers or fails, callWithRetry ends, each
\* image of the composite loads or fails to).
SpecCooldownFair == SpecCooldown /\ WF_vars(Settles)

(***************************************************************************)
(* The CanvasEditor component.  A pointer event is given by its screen     *)
(* point and by what getCanvasCoordinates maps it to under the viewport of *)
(* the moment: a column 1..naturalSize, or 0 (null) outside the image.     *)
(* Positions on the axis are counted in quarter pixels: column p spans     *)
(* 4p-4..4p and a pointer in column p is taken at its centre 4p-2.         *)
(***************************************************************************)
MaxStrokePoints == 2
MaxTimers == 1
MaxLoads == 1
MaxEditorEdits == 1
MaxOffset == 50
Padding == 80

ToolModes == {"BRUSH", "ERASER", "PAN"}
ScreenPoints == {1, 2}
\* Half of ctx.lineWidth (actualBrushSize), in quarter pixels.
HalfWidths == {2}

\* img.width of a loaded image: file f is f pixels wide, and compositing
\* keeps the original's size.
NaturalWidthOf(img) == img.src

Centre(p) == 4 * p - 2
Min(a, b) == IF a < b THEN a ELSE b
Max(a, b) == IF a > b THEN a ELSE b

\* A quadratic curve from P with control point C to M, stroked with half
\* width hw, covers position x.
CurveCovers(x, P, C, M, hw) ==
    LET lo == Min(P, M)
        hi == Max(P, M)
    IN \/ lo - hw <= x /\ x <= hi + hw
       \/ C > hi /\ x > hi /\ (C - x + hw) * ((C - P) + (C - M)) >= (C - P) * (C - M)
       \/ C < lo /\ x < lo /\ (x - C + hw) * ((P - C) + (M - C)) >= (P - C) * (M - C)

\* The k-th curve of the path pts: quadraticCurveTo(pts[k], midpoint of
\* pts[k] and pts[k+1]), starting where the path stood.
CurveStart(pts, k) ==
    IF k = 1 THEN Centre(pts[1]) ELSE (Centre(pts[k - 1]) + Centre(pts[k])) \div 2

CurveEnd(pts, k) == (Centre(pts[k]) + Centre(pts[k + 1])) \div 2

\* ctx.stroke() of the path pts covers the centre of column p.
StrokeCovers(p, pts, hw) ==
    \E k \in 1..(Len(pts) - 1) :
        CurveCovers(Centre(p), CurveStart(pts, k), Centre(pts[k]), CurveEnd(pts, k), hw)

\* ctx.strokeStyle of draw.
StrokeStyleMutant(mode) == 255

StrokeStyle(mode) == IF mode = "BRUSH" THEN 255 ELSE 0

\* ctx.stroke() of the path pts in the style of mode, source-over, onto a
\* canvas holding pixels.
StrokePixels(pixels, pts, hw, mode) ==
    [p \in 1..Len(pixels) |->
        IF StrokeCovers(p, pts, hw) THEN StrokeStyle(mode) ELSE pixels[p]]

\* canvas.toDataURL('image/png'): the width, then the pixels.
ToDataURL(w, pixels) == <<w>> \o pixels

BlackCanvas(w) == [i \in 1..w |-> 0]

\* ctx.drawImage(maskImg, 0, 0, w, h) onto a canvas holding pixels.
DrawMask(pixels, maskUrl, w) ==
    LET src == Tail(maskUrl)
    IN [i \in 1..Len(pixels) |->
          IF i <= w /\ Len(src) > 0
          THEN src[((i - 1) * Len(src)) \div w + 1]
          ELSE pixels[i]]

\* The editor renders its interactive layer once an image is set, and the
\* layer has an area once an image has loaded.
Interactive == currentImage # NullImage /\ naturalSize > 0

\* What the editor's effects do after a step of App that sets currentImage
\* and maskDataUrl to their primed values: useEffect([imageUrl]) starts
\* loading a changed image; the sync effect, on a changed maskUrl, fills the
\* canvas black and starts loading the mask.
EffectsAfterApp ==
    /\ imageLoads' = IF currentImage' # currentImage /\ currentImage' # NullImage
                     THEN imageLoads \cup {currentImage'}
                     ELSE imageLoads
    /\ IF maskDataUrl' # maskDataUrl /\ naturalSize > 0
       THEN /\ canvas' = BlackCanvas(naturalSize)
            /\ maskLoads' = IF maskDataUrl' # NullMask
                            THEN maskLoads \cup {<<maskDataUrl', naturalSize>>}
                            ELSE maskLoads
       ELSE UNCHANGED <<canvas, maskLoads>>
    /\ UNCHANGED <<toolMode, isDrawing, isPanning, lastPoint, lastPanPoint,
                   naturalSize, path, exportTimers, viewVars>>

\* container.clientWidth of the sample window, in CSS pixels.
ClientWidth == 400

\* dWidth of an image the container's width limits (imageAspect > containerAspect).
DisplayWidthOf(img) == ClientWidth - Padding

\* setZoom(1); setOffset({ x: 0, y: 0 }) of img.onload: <<zoom, offset>> after it.
ViewAfterLoadMutant(z, o) == <<z, o>>

ViewAfterLoad(z, o) == <<2, 0>>

\* img.onload of useEffect([imageUrl]): the sizes are set and the viewport
\* reset; a changed width attribute resets the canvas and its path; the sync
\* effect runs.
ImageOnload(img) ==
    /\ img \in imageLoads
    /\ imageLoads' = imageLoads \ {img}
    /\ displaySize' = DisplayWidthOf(img)
    /\ naturalSize' = NaturalWidthOf(img)
    /\ zoom' = ViewAfterLoad(zoom, offset)[1]
    /\ offset' = ViewAfterLoad(zoom, offset)[2]
    /\ canvas' = BlackCanvas(NaturalWidthOf(img))
    /\ path' = IF NaturalWidthOf(img) # naturalSize THEN <<>> ELSE path
    /\ maskLoads' = IF maskDataUrl # NullMask
                    THEN maskLoads \cup {<<maskDataUrl, NaturalWidthOf(img)>>}
                    ELSE maskLoads
    /\ UNCHANGED <<toolMode, isDrawing, isPanning, lastPoint, lastPanPoint, exportTimers>>
    /\ UNCHANGED appVars

\* maskImg.onload of the sync effect.
MaskOnload(load) ==
    /\ load \in maskLoads
    /\ maskLoads' = maskLoads \ {load}
    /\ canvas' = DrawMask(canvas, load[1], load[2])
    /\ UNCHANGED <<toolMode, isDrawing, isPanning, lastPoint, lastPanPoint,
                   naturalSize, path, exportTimers, imageLoads, viewVars>>
    /\ UNCHANGED appVars

\* onToolModeChange (the tool buttons are disabled while isProcessing).
SetToolMode(mode) ==
    /\ currentImage # NullImage
    /\ ~isProcessing
    /\ mode # toolMode
    /\ toolMode' = mode
    /\ UNCHANGED <<isDrawing, isPanning, lastPoint, lastPanPoint, naturalSize,
                   canvas, path, exportTimers, imageLoads, maskLoads, viewVars>>
    /\ UNCHANGED appVars

\* if (isProcessing) return;
LockedMutant == FALSE

Locked == isProcessing

\* startInteraction at screen point pt, which maps to coords.
StartInteraction(pt, coords) ==
    /\ Interactive
    /\ IF Locked
       THEN UNCHANGED <<isDrawing, isPanning, lastPoint, lastPanPoint, path>>
       ELSE IF toolMode = "PAN"
       THEN /\ isPanning' = TRUE
            /\ lastPanPoint' = pt
            /\ UNCHANGED <<isDrawing, lastPoint, path>>
       ELSE IF coords = NullPoint
       THEN UNCHANGED <<isDrawing, isPanning, lastPoint, lastPanPoint, path>>
       ELSE /\ isDrawing' = TRUE
            /\ lastPoint' = coords
            /\ path' = <<coords>>
            /\ UNCHANGED <<isPanning, lastPanPoint>>
    /\ UNCHANGED <<toolMode, naturalSize, canvas, exportTimers, imageLoads, maskLoads,
                   viewVars>>
    /\ UNCHANGED appVars

\* draw(currentPoint), with ctx.lineWidth = 2 * hw.
Draw(currentPoint, hw) ==
    IF ~isDrawing \/ lastPoint = NullPoint
    THEN UNCHANGED <<canvas, path, lastPoint>>
    ELSE LET pts == IF path = <<>> THEN <<lastPoint, currentPoint>>
                    ELSE Append(path, currentPoint)
         IN /\ path' = pts
            /\ canvas' = StrokePixels(canvas, pts, hw, toolMode)
            /\ lastPoint' = currentPoint

\* The coords operand of if (isDrawing && coords).
HitMutant(coords) == TRUE

Hit(coords) == coords # NullPoint

\* handleMove at screen point pt, which maps to coords.
HandleMove(pt, coords, hw) ==
    /\ Interactive
    /\ IF isPanning /\ lastPanPoint # NullPoint
       THEN /\ LET dx == pt - lastPanPoint
               IN /\ -MaxOffset <= offset + dx
                  /\ offset + dx <= MaxOffset
                  /\ offset' = offset + dx
            /\ lastPanPoint' = pt
            /\ UNCHANGED <<canvas, path, lastPoint>>
       ELSE /\ IF isDrawing /\ Hit(coords)
               THEN Len(path) < MaxStrokePoints /\ Draw(coords, hw)
               ELSE UNCHANGED <<canvas, path, lastPoint>>
            /\ UNCHANGED <<lastPanPoint, offset>>
    /\ UNCHANGED <<toolMode, isDrawing, isPanning, naturalSize, exportTimers,
                   imageLoads, maskLoads, zoom, displaySize>>
    /\ UNCHANGED appVars

\* if (isDrawing) of endInteraction.
StrokeActiveMutant == TRUE

StrokeActive == isDrawing

\* endInteraction (mouse up, touch end, mouse leave).  The path is dropped
\* here: nothing reads it before the next startInteraction's beginPath.
EndInteraction ==
    /\ Interactive
    /\ IF StrokeActive
       THEN /\ exportTimers < MaxTimers
            /\ isDrawing' = FALSE
            /\ lastPoint' = NullPoint
            /\ exportTimers' = exportTimers + 1
       ELSE UNCHANGED <<isDrawing, lastPoint, exportTimers>>
    /\ isPanning' = FALSE
    /\ lastPanPoint' = NullPoint
    /\ path' = <<>>
    /\ UNCHANGED <<toolMode, naturalSize, canvas, imageLoads, maskLoads, viewVars>>
    /\ UNCHANGED appVars

\* The 50 ms timeout of endInteraction: onUpdateMask(canvas.toDataURL()).
ExportTimerFires ==
    /\ exportTimers > 0
    /\ HandleUpdateMask(ToDataURL(naturalSize, canvas))
    /\ imageLoads' = imageLoads
    /\ IF maskDataUrl' # maskDataUrl /\ naturalSize > 0
       THEN /\ canvas' = BlackCanvas(naturalSize)
            /\ maskLoads' = maskLoads \cup {<<maskDataUrl', naturalSize>>}
       ELSE UNCHANGED <<canvas, maskLoads>>
    /\ exportTimers' = exportTimers - 1
    /\ UNCHANGED <<toolMode, isDrawing, isPanning, lastPoint, lastPanPoint,
                   naturalSize, path, viewVars>>

\* setZoom's Math.min(Math.max(prev + delta, 1), 5), in halves.
ClampMutant(z) == z

Clamp(z) == Min(Max(z, 2), 10)

\* if (zoom + delta <= 1) of handleZoom, in halves.
ResetsOffsetMutant(z, delta) == FALSE

ResetsOffset(z, delta) == z + delta <= 2

\* handleZoom(delta); the zoom buttons are rendered once there is an image.
HandleZoom(delta) ==
    /\ currentImage # NullImage
    /\ zoom' = Clamp(zoom + delta)
    /\ offset' = IF ResetsOffset(zoom, delta) THEN 0 ELSE offset
    /\ UNCHANGED <<toolMode, isDrawing, isPanning, lastPoint, lastPanPoint,
                   naturalSize, canvas, path, exportTimers, imageLoads, maskLoads,
                   displaySize>>
    /\ UNCHANGED appVars

\* The reset button: setZoom(1); setOffset({x:0, y:0}).
ResetView ==
    /\ currentImage # NullImage
    /\ zoom' = 2
    /\ offset' = 0
    /\ UNCHANGED <<toolMode, isDrawing, isPanning, lastPoint, lastPanPoint,
                   naturalSize, canvas, path, exportTimers, imageLoads, maskLoads,
                   displaySize>>
    /\ UNCHANGED appVars

(***************************************************************************)
(* getCanvasCoordinates.  Screen positions are fractions [num, den] of a    *)
(* quarter CSS pixel, so that the rectangle of a canvas scaled by a zoom in *)
(* halves about its centre is exact; a mapped point is a fraction of a      *)
(* natural pixel, null, or the NaN that 0/0 gives.  The container's left    *)
(* edge is at screen position 0 and the wrapper's one-pixel border is left  *)
(* out.                                                                     *)
(***************************************************************************)
Px(p) == [num |-> 4 * p, den |-> 1]

NullCoords == [kind |-> "null", num |-> 0, den |-> 1]
NaNCoords == [kind |-> "NaN", num |-> 0, den |-> 1]

\* canvas.getBoundingClientRect() under translate(o px) scale(z / 2) about the
\* centre of a d px wide box centred in the container.
RectOf(z, o, d) == [left |-> 2 * ClientWidth + 4 * o - z * d, width |-> 2 * z * d]

\* Where the transform puts the natural-space point x of a natW px wide
\* canvas shown d px wide.
ToScreen(x, z, o, d, natW) ==
    [num |-> (2 * ClientWidth + 4 * o) * natW + 2 * z * x * d - z * d * natW,
     den |-> natW]

GetCanvasCoordinatesMutant(clientX, rect, natW) ==
    LET num == clientX.num
        den == rect.width * clientX.den
    IN IF den = 0
       THEN IF num = 0 THEN NaNCoords ELSE NullCoords
       ELSE IF num < 0 \/ num > den
       THEN NullCoords
       ELSE [kind |-> "point", num |-> num * natW, den |-> den]

\* getCanvasCoordinates(clientX) with the canvas mounted: normX is num / den;
\* a zero rect.width gives NaN (0/0), which passes both comparisons, or an
\* infinity, which fails one.
GetCanvasCoordinates(clientX, rect, natW) ==
    LET num == clientX.num - rect.left * clientX.den
        den == rect.width * clientX.den
    IN IF den = 0
       THEN IF num = 0 THEN NaNCoords ELSE NullCoords
       ELSE IF num < 0 \/ num > den
       THEN NullCoords
       ELSE [kind |-> "point", num |-> num * natW, den |-> den]

\* The pixel column a mapped point lies in (the last one on the right edge),
\* 0 for null.
ColumnOf(c, natW) ==
    IF c.kind # "point" THEN NullPoint ELSE Min((c.num \div c.den) + 1, natW)

\* The column the pointer at p px maps to under the viewport of the moment.
MappedColumn(p) ==
    ColumnOf(GetCanvasCoordinates(Px(p), RectOf(zoom, offset, displaySize), naturalSize),
             naturalSize)

(***************************************************************************)
(* The brush.  brushSize is the prop the slider sets, in CSS pixels; draw   *)
(* turns it into a line width in natural pixels, a fraction [num, den]; the *)
(* canvas, naturalSize wide, is shown rect.width quarter CSS pixels wide.   *)
(***************************************************************************)
BrushSizes == {5, 42, 120}

ActualBrushSizeMutant(brushSize, z, natW, d) == [num |-> brushSize * natW, den |-> d]

\* actualBrushSize = (brushSize / zoom) * (naturalSize.width / displaySize.width),
\* zoom being z / 2.
ActualBrushSize(brushSize, z, natW, d) == [num |-> 2 * brushSize * natW, den |-> z * d]

\* The length on screen, in quarter CSS pixels, of w natural pixels of a canvas
\* natW wide shown in rect.
OnScreen(w, rect, natW) == [num |-> w.num * rect.width, den |-> w.den * natW]

\* The brush cursor's diameter on screen: a fixed div brushSize wide, outside
\* the transformed div.
CursorDiameter(brushSize) == Px(brushSize)

(***************************************************************************)
(* Spec: App and CanvasEditor together.  The service fails, but never with *)
(* a rate limit, so cooldownRemaining stays 0 (SpecCooldown covers that);  *)
(* undo and redo, which reach the editor only as one more change of        *)
(* imageUrl, are left to SpecApp and SpecHistory.                          *)
(***************************************************************************)
Coords == {NullPoint} \cup (1..naturalSize)

\* File reads and image decodes under way.
LoadsInFlight == Cardinality(readers) + Cardinality(imageLoads) + Cardinality(maskLoads)

\* A step of App seen from the editor: its effects run, within the bounds.
WithEditor ==
    /\ EffectsAfterApp
    /\ LoadsInFlight' <= MaxLoads
    /\ UNCHANGED <<compVars, rtVars, retryVars, originVars>>

\* A step of the editor.
InEditor ==
    /\ LoadsInFlight' <= MaxLoads
    /\ UNCHANGED <<compVars, rtVars, retryVars, originVars>>

\* The observer, when the mask is cleared (an upload has been read, a removal
\* has succeeded): the active stroke and the scheduled exports now date from
\* before the clear.
ObsOnClear ==
    /\ staleStroke' = isDrawing
    /\ staleExports' = exportTimers
    /\ ideal' = {}

\* The observer at startInteraction: a press that begins a stroke begins one
\* that postdates the clear.
ObsOnStart(coords) ==
    /\ staleStroke' = (staleStroke /\ (Locked \/ toolMode = "PAN" \/ coords = NullPoint))
    /\ UNCHANGED <<staleExports, ideal>>

\* The observer at endInteraction: the export scheduled for a stale stroke is
\* stale.
ObsOnEnd ==
    /\ staleStroke' = (staleStroke /\ ~isDrawing)
    /\ staleExports' = IF isDrawing /\ staleStroke THEN staleExports + 1 ELSE staleExports
    /\ UNCHANGED ideal

\* The observer when a timeout fires: the timeouts have one delay, so the
\* oldest fires first.
ObsOnExport ==
    /\ staleExports' = Max(staleExports - 1, 0)
    /\ UNCHANGED <<staleStroke, ideal>>

\* The observer at handleMove: when draw stroked the path (the path grew),
\* the brush adds the columns the stroke covers and the eraser takes them away.
ObsOnDraw(hw) ==
    /\ LET covered == {p \in 1..naturalSize : StrokeCovers(p, path', hw)}
       IN ideal' = IF path' = path THEN ideal
                   ELSE IF toolMode = "BRUSH" THEN ideal \cup covered
                   ELSE ideal \ covered
    /\ UNCHANGED <<staleStroke, staleExports>>

Unobserved == UNCHANGED obsVars

\* The steps of App and editor when the files chosen are among files.  The
\* column a pointer event maps to is an input here, whatever the viewport,
\* so the view is left at the identity: a pan ends where it began and the
\* zoom buttons are not pressed (SpecViewport moves the view).
NextOn(files) ==
    \/ \E f \in files : HandleUpload(f) /\ WithEditor /\ Unobserved
    \/ \E f \in files : ReaderOnload(f) /\ WithEditor /\ ObsOnClear
    \/ HandleRemove /\ Len(currentImage.edits) < MaxEditorEdits /\ WithEditor /\ Unobserved
    \/ \E i \in 1..Len(calls) : RemoveObjectResolves(i) /\ WithEditor /\ Unobserved
    \/ \E i \in 1..Len(calls) : RemoveObjectRejects(i, "other") /\ WithEditor /\ Unobserved
    \/ \E i \in 1..Len(calls) : CompositeRejects(i) /\ WithEditor /\ Unobserved
    \/ \E i \in 1..Len(calls) : CompositeResolves(i) /\ WithEditor /\ ObsOnClear
    \/ \E img \in imageLoads : ImageOnload(img) /\ InEditor /\ Unobserved
    \/ \E load \in maskLoads : MaskOnload(load) /\ InEditor /\ Unobserved
    \/ \E mode \in ToolModes : SetToolMode(mode) /\ InEditor /\ Unobserved
    \/ \E pt \in ScreenPoints, coords \in Coords :
          StartInteraction(pt, coords) /\ InEditor /\ ObsOnStart(coords)
    \/ \E pt \in ScreenPoints, coords \in Coords, hw \in HalfWidths :
          HandleMove(pt, coords, hw) /\ offset' = offset /\ InEditor /\ Unobserved
    \/ EndInteraction /\ InEditor /\ ObsOnEnd
    \/ ExportTimerFires /\ InEditor /\ ObsOnExport

Next == NextOn(Files)

Spec == Init /\ [][Next]_vars

\* SpecOneImage: Spec when every upload is of the first file, so that the
\* image's size never changes under the editor.
NextOneImage == NextOn({1})

SpecOneImage == Init /\ [][NextOneImage]_vars

(***************************************************************************)
(* SpecStroke: painting on one loaded image, MaxStrokeW pixels wide at     *)
(* most, with brushes of several widths; the mask is exported and synced   *)
(* back, and nothing is uploaded or removed.                               *)
(***************************************************************************)
MaxStrokeW == 2
StrokeHalfWidths == {2, 6}

InitStroke ==
    /\ RtInit /\ CompositeIdle /\ ObsInit /\ RetryIdle /\ OriginInit
    /\ \E w \in 1..MaxStrokeW :
          /\ originalImage = DataUrlOf(w)
          /\ currentImage = DataUrlOf(w)
          /\ history = <<DataUrlOf(w)>>
          /\ naturalSize = NaturalWidthOf(DataUrlOf(w))
          /\ canvas = BlackCanvas(NaturalWidthOf(DataUrlOf(w)))
          /\ displaySize = DisplayWidthOf(DataUrlOf(w))
    /\ maskDataUrl = NullMask
    /\ isProcessing = FALSE
    /\ redoStack = <<>>
    /\ cooldownRemaining = 0
    /\ readers = {}
    /\ calls = <<>>
    /\ toolMode = "BRUSH"
    /\ isDrawing = FALSE
    /\ isPanning = FALSE
    /\ lastPoint = NullPoint
    /\ lastPanPoint = NullPoint
    /\ path = <<>>
    /\ exportTimers = 0
    /\ imageLoads = {}
    /\ maskLoads = {}
    /\ zoom = 2
    /\ offset = 0

NextStroke ==
    \/ \E load \in maskLoads : MaskOnload(load) /\ InEditor /\ Unobserved
    \/ \E mode \in ToolModes : SetToolMode(mode) /\ InEditor /\ Unobserved
    \/ \E pt \in ScreenPoints, coords \in Coords :
          StartInteraction(pt, coords) /\ InEditor /\ ObsOnStart(coords)
    \/ \E pt \in ScreenPoints, coords \in Coords, hw \in StrokeHalfWidths :
          HandleMove(pt, coords, hw) /\ offset' = offset /\ InEditor /\ Unobserved
    \/ EndInteraction /\ InEditor /\ ObsOnEnd
    \/ ExportTimerFires /\ InEditor /\ ObsOnExport

SpecStroke == InitStroke /\ [][NextStroke]_vars

(***************************************************************************)
(* SpecRepaint: SpecStroke watched by the observer of what was painted.    *)
(***************************************************************************)
NextRepaint ==
    \/ \E load \in maskLoads : MaskOnload(load) /\ InEditor /\ Unobserved
    \/ \E mode \in ToolModes : SetToolMode(mode) /\ InEditor /\ Unobserved
    \/ \E pt \in ScreenPoints, coords \in Coords :
          StartInteraction(pt, coords) /\ InEditor /\ ObsOnStart(coords)
    \/ \E pt \in ScreenPoints, coords \in Coords, hw \in StrokeHalfWidths :
          HandleMove(pt, coords, hw) /\ offset' = offset /\ InEditor /\ ObsOnDraw(hw)
    \/ EndInteraction /\ InEditor /\ ObsOnEnd
    \/ ExportTimerFires /\ InEditor /\ ObsOnExport

SpecRepaint == InitStroke /\ [][NextRepaint]_vars

(***************************************************************************)
(* SpecUploads: uploads and the editor with one more load in flight than   *)
(* in Spec, so that an export can fall between the reading of a new image  *)
(* and its load; nothing is removed.                                       *)
(***************************************************************************)
WithEditorUploads ==
    /\ EffectsAfterApp
    /\ LoadsInFlight' <= MaxLoads + 1
    /\ UNCHANGED <<compVars, rtVars, retryVars, originVars>>

InEditorUploads ==
    /\ LoadsInFlight' <= MaxLoads + 1
    /\ UNCHANGED <<compVars, rtVars, retryVars, originVars>>

NextUploads ==
    \/ \E f \in Files : HandleUpload(f) /\ WithEditorUploads /\ Unobserved
    \/ \E f \in Files : ReaderOnload(f) /\ WithEditorUploads /\ ObsOnClear
    \/ \E img \in imageLoads : ImageOnload(img) /\ InEditorUploads /\ Unobserved
    \/ \E load \in maskLoads : MaskOnload(load) /\ InEditorUploads /\ Unobserved
    \/ \E mode \in ToolModes : SetToolMode(mode) /\ InEditorUploads /\ Unobserved
    \/ \E pt \in ScreenPoints, coords \in Coords :
          StartInteraction(pt, coords) /\ InEditorUploads /\ ObsOnStart(coords)
    \/ \E pt \in ScreenPoints, coords \in Coords, hw \in HalfWidths :
          HandleMove(pt, coords, hw) /\ offset' = offset /\ InEditorUploads /\ Unobserved
    \/ EndInteraction /\ InEditorUploads /\ ObsOnEnd
    \/ ExportTimerFires /\ InEditorUploads /\ ObsOnExport

SpecUploads == Init /\ [][NextUploads]_vars

(***************************************************************************)
(* SpecOrigin: uploads, strokes, exports and the request of a removal,     *)
(* with the loads of SpecUploads, watched by the observer of where the     *)
(* stored mask comes from.  The request is not followed further.           *)
(***************************************************************************)
WithEditorOrigin ==
    /\ EffectsAfterApp
    /\ LoadsInFlight' <= MaxLoads + 1
    /\ UNCHANGED <<compVars, rtVars, retryVars>>
    /\ Unobserved

InEditorOrigin ==
    /\ LoadsInFlight' <= MaxLoads + 1
    /\ UNCHANGED <<compVars, rtVars, retryVars>>
    /\ Unobserved

OriginSame == UNCHANGED originVars

\* The stored mask is discarded.
OriginOnClear ==
    /\ maskImage' = NullImage
    /\ UNCHANGED <<strokeImage, timerImages>>

\* A stroke begins on the image that is current.
OriginOnStart ==
    /\ strokeImage' = IF isDrawing' /\ ~isDrawing THEN currentImage ELSE strokeImage
    /\ UNCHANGED <<timerImages, maskImage>>

\* A stroke ends and its export is scheduled.
OriginOnEnd ==
    /\ timerImages' = IF exportTimers' > exportTimers
                      THEN Append(timerImages,
                                  IF strokeImage = currentImage THEN currentImage
                                  ELSE NullImage)
                      ELSE timerImages
    /\ UNCHANGED <<strokeImage, maskImage>>

\* The oldest scheduled export stores its mask.
OriginOnExport ==
    /\ maskImage' = Head(timerImages)
    /\ timerImages' = Tail(timerImages)
    /\ UNCHANGED strokeImage

NextOrigin ==
    \/ \E f \in Files : HandleUpload(f) /\ WithEditorOrigin /\ OriginSame
    \/ \E f \in Files : ReaderOnload(f) /\ WithEditorOrigin /\ OriginOnClear
    \/ HandleRemove /\ WithEditorOrigin /\ OriginSame
    \/ \E img \in imageLoads : ImageOnload(img) /\ InEditorOrigin /\ OriginSame
    \/ \E load \in maskLoads : MaskOnload(load) /\ InEditorOrigin /\ OriginSame
    \/ \E pt \in ScreenPoints, coords \in Coords :
          StartInteraction(pt, coords) /\ InEditorOrigin /\ OriginOnStart
    \/ \E pt \in ScreenPoints, coords \in Coords, hw \in HalfWidths :
          HandleMove(pt, coords, hw) /\ offset' = offset /\ InEditorOrigin /\ OriginSame
    \/ EndInteraction /\ InEditorOrigin /\ OriginOnEnd
    \/ ExportTimerFires /\ InEditorOrigin /\ OriginOnExport

SpecOrigin == Init /\ [][NextOrigin]_vars

(***************************************************************************)
(* SpecViewport: the editor under zoom and pan.  Pointer events arrive at  *)
(* the screen points ViewPoints and map to the column getCanvasCoordinates *)
(* gives under the viewport of the moment; images are uploaded and load.   *)
(* The pointer is pressed only while the pan tool is selected: painting,   *)
(* exporting and removing are Spec's.                                      *)
(***************************************************************************)
ViewPoints == {0, 200, 250}
ZoomDeltas == {1, -1}

NextViewport ==
    \/ \E f \in Files : HandleUpload(f) /\ WithEditor /\ Unobserved
    \/ \E f \in Files : ReaderOnload(f) /\ WithEditor /\ Unobserved
    \/ \E img \in imageLoads : ImageOnload(img) /\ InEditor /\ Unobserved
    \/ \E mode \in ToolModes : SetToolMode(mode) /\ InEditor /\ Unobserved
    \/ \E pt \in ViewPoints :
          toolMode = "PAN" /\ StartInteraction(pt, MappedColumn(pt)) /\ InEditor /\ Unobserved
    \/ \E pt \in ViewPoints, hw \in HalfWidths :
          HandleMove(pt, MappedColumn(pt), hw) /\ InEditor /\ Unobserved
    \/ EndInteraction /\ InEditor /\ Unobserved
    \/ \E delta \in ZoomDeltas : HandleZoom(delta) /\ InEditor /\ Unobserved
    \/ ResetView /\ InEditor /\ Unobserved

SpecViewport == Init /\ [][NextViewport]_vars

(***************************************************************************)
(* SpecHistory: SpecApp watched by the observer of undo/redo round trips.  *)
(* A run starts at an undo that follows anything but an undo; it ends at   *)
(* a confirmed edit, or at a redo beyond the run's undos.                  *)
(***************************************************************************)
RtOnUndo ==
    IF rtPhase = "undo"
    THEN /\ rtUndos' = rtUndos + 1
         /\ UNCHANGED <<rtPhase, rtSnap, rtRedos>>
    ELSE /\ rtPhase' = "undo"
         /\ rtSnap' = <<history, currentImage, redoStack>>
         /\ rtUndos' = 1
         /\ rtRedos' = 0

RtReset ==
    /\ rtPhase' = "off"
    /\ rtSnap' = <<>>
    /\ rtUndos' = 0
    /\ rtRedos' = 0

RtOnRedo ==
    IF rtPhase # "off" /\ rtRedos < rtUndos
    THEN /\ rtPhase' = "redo"
         /\ rtRedos' = rtRedos + 1
         /\ UNCHANGED <<rtSnap, rtUndos>>
    ELSE RtReset

\* What a step of App leaves alone under the observer.
Observed == UNCHANGED <<compVars, editorVars, obsVars, retryVars, originVars>>

NextHistory ==
    \/ \E f \in Files : HandleUpload(f) /\ UNCHANGED rtVars /\ Observed
    \/ \E f \in Files : ReaderOnload(f) /\ RtReset /\ Observed
    \/ \E m \in SampleMasks :
          currentImage # NullImage /\ HandleUpdateMask(m) /\ UNCHANGED rtVars /\ Observed
    \/ HandleRemove /\ UNCHANGED rtVars /\ Observed
    \/ \E i \in 1..Len(calls) : RemoveObjectResolves(i) /\ UNCHANGED rtVars /\ Observed
    \/ \E i \in 1..Len(calls) : RemoveObjectRejects(i, "other") /\ UNCHANGED rtVars /\ Observed
    \/ \E i \in 1..Len(calls) : CompositeRejects(i) /\ UNCHANGED rtVars /\ Observed
    \/ \E i \in 1..Len(calls) : CompositeResolves(i) /\ RtReset /\ Observed
    \/ HandleUndo /\ RtOnUndo /\ Observed
    \/ HandleRedo /\ RtOnRedo /\ Observed

SpecHistory == Init /\ [][NextHistory]_vars

(***************************************************************************)
(* SpecComposite: one call of compositeSurgicalResult on sampled bitmaps.  *)
(***************************************************************************)
InitComposite == CompositeInit /\ AppInit /\ RtInit /\ EditorInit /\ ObsInit /\ RetryIdle /\ OriginInit

SpecComposite == InitComposite /\ [][CompositeNext]_vars

(***************************************************************************)
(* SpecRetry: one call of callWithRetry, in either version, with any       *)
(* maxRetries up to MaxRetriesArg; fn settles in any way each time.        *)
(* SpecRetryFair adds that a pending fn settles and a sleep ends.          *)
(***************************************************************************)
InitRetry == AppInit /\ EditorInit /\ RtInit /\ CompositeIdle /\ ObsInit /\ RetryInit /\ OriginInit

RetryAlone == UNCHANGED <<compVars, appVars, rtVars, editorVars, obsVars, originVars>>

NextRetry ==
    \/ InvokeFn /\ RetryAlone
    \/ ThrowLastError /\ RetryAlone
    \/ \E v \in Responses : FnResolves(v) /\ RetryAlone
    \/ \E error \in Errors, jitter \in Jitters : FnRejects(error, jitter) /\ RetryAlone
    \/ SleepEnds /\ RetryAlone

SpecRetry == InitRetry /\ [][NextRetry]_vars

SpecRetryFair == SpecRetry /\ WF_vars(NextRetry)

(***************************************************************************)
(* Claims about the App component.                                         *)
(***************************************************************************)
\* A step in which a handleRemove call ends in its catch block: the call's
\* frame goes and no image is appended to history.
FailureStep == Len(calls') < Len(calls) /\ history' = history

\* C3: the image and mask handed to compositeSurgicalResult are the
\* currentImage and maskDataUrl read when handleRemove started (the frame's
\* snapshot, taken from the state at the start and never changed while the
\* call is outstanding), and the composited result is built from them,
\* whatever was uploaded or exported in between.
C3_ArgsAreSnapshot ==
    \A i \in 1..Len(calls) :
        calls[i].pc = "composite" =>
            calls[i].args = <<calls[i].currentOriginal, calls[i].currentMask>>

C3_SnapshotStep ==
    /\ Len(calls') > Len(calls) =>
          /\ Last(calls').currentOriginal = currentImage
          /\ Last(calls').currentMask = maskDataUrl
    /\ Len(calls') = Len(calls) =>
          \A i \in 1..Len(calls) :
             /\ calls'[i].currentOriginal = calls[i].currentOriginal
             /\ calls'[i].currentMask = calls[i].currentMask
    /\ (Len(calls') < Len(calls) /\ history' # history) =>
          Last(history') = CompositedImage(calls[1].currentOriginal, calls[1].currentMask)

C3_SnapshotComposited == [] C3_ArgsAreSnapshot /\ [][C3_SnapshotStep]_vars

\* C3 witness: a composite is outstanding while both the current image and
\* the stored mask differ from the snapshot (an upload and a mask export
\* arrived during the call).
C3_Witness ==
    /\ Len(calls) = 1
    /\ calls[1].pc = "composite"
    /\ currentImage # calls[1].currentOriginal
    /\ maskDataUrl # NullMask
    /\ maskDataUrl # calls[1].currentMask

\* C7 as stated: when a removal fails, currentImage, history and the redo
\* stack are as they were before the request (currentImage is the image the
\* request read at its start), and isProcessing is cleared.
C7_FailureStepAsStated ==
    FailureStep =>
        /\ currentImage' = calls[1].currentOriginal
        /\ UNCHANGED <<history, redoStack>>
        /\ isProcessing' = FALSE

C7_FailureStep ==
    FailureStep =>
        /\ UNCHANGED <<originalImage, currentImage, maskDataUrl, history, redoStack>>
        /\ isProcessing' = FALSE
        /\ \/ cooldownRemaining' = cooldownRemaining
           \/ cooldownRemaining' = CooldownSeconds /\ calls[1].pc = "removeObject"

C9_HistoryInvariant ==
    IF originalImage = NullImage
    THEN history = <<>> /\ currentImage = NullImage
    ELSE /\ history # <<>>
         /\ history[1] = originalImage
         /\ originalImage.edits = <<>>
         /\ currentImage = Last(history)

\* C9 witness: after two removals and two undos, one image was redone.
C9_Witness ==
    /\ Len(history) = 2
    /\ Len(redoStack) = 1
    /\ currentImage = history[2]
    /\ Len(redoStack[1].edits) = 2

\* C10: after k undos followed by j <= k redos with no edit in between,
\* history is the first N - k + j images of the history before the undos and
\* currentImage its last; after k redos history, currentImage and the redo
\* stack are exactly what they were before the undos.
C10_UndoRedoRoundTrip ==
    rtPhase # "off" =>
        /\ history = SubSeq(rtSnap[1], 1, Len(rtSnap[1]) - rtUndos + rtRedos)
        /\ currentImage = Last(history)
        /\ rtRedos = rtUndos => <<history, currentImage, redoStack>> = rtSnap

\* C10 witness: two undos were followed by two redos.
C10_Witness ==
    /\ rtPhase = "redo"
    /\ rtUndos = 2
    /\ rtRedos = 2

\* A removal succeeded: its call left the list and its result joined history.
SuccessStep ==
    /\ Len(calls') < Len(calls)
    /\ history' = Append(history, currentImage')

\* An undo: history lost its last image and nothing was uploaded or settled.
UndoStep ==
    /\ history' = Front(history)
    /\ history # <<>>
    /\ readers' = readers
    /\ calls' = calls

\* A redo: history gained an image and no removal settled.
RedoStep ==
    /\ Len(history') = Len(history) + 1
    /\ calls' = calls
    /\ readers' = readers

C11_RedoStackStep ==
    /\ SuccessStep => redoStack' = <<>>
    /\ UndoStep => redoStack' = <<Last(history)>> \o redoStack
    /\ RedoStep => /\ redoStack # <<>>
                   /\ Last(history') = Head(redoStack)
                   /\ redoStack' = Tail(redoStack)
    /\ ~SuccessStep /\ ~UndoStep /\ ~RedoStep => redoStack' \in {redoStack, <<>>}

\* C11: the redo stack is empty right after every successful removal, and
\* otherwise holds exactly the undone images, most recent first: an undo puts
\* the image it removed from history on the front, a redo takes the front
\* image back into history, and no other step changes the stack except to
\* clear it.
C11_RedoStack == [][C11_RedoStackStep]_vars

\* C11 witness: a removal is about to succeed while the redo stack still
\* holds two undone images.
C11_Witness ==
    /\ Len(redoStack) = 2
    /\ \E i \in 1..Len(calls) : calls[i].pc = "composite"

\* A request is issued: handleRemove called removeObject.
RequestStep == Len(calls') > Len(calls)

\* removeObject failed with SYSTEM_BUSY: its retries met rate limits only.
BusyStep == \E i \in 1..Len(calls) : RemoveObjectRejects(i, "SYSTEM_BUSY")

C24_CooldownStep ==
    /\ BusyStep => cooldownRemaining' = CooldownSeconds
    /\ RequestStep => cooldownRemaining = 0 /\ cooldownRemaining' = 0
    /\ ~BusyStep =>
          \/ cooldownRemaining' = cooldownRemaining
          \/ cooldownRemaining > 0 /\ cooldownRemaining' = cooldownRemaining - 1

\* C24: a removal that fails with SYSTEM_BUSY sets cooldownRemaining to 60;
\* any other step leaves the counter alone or takes one off it, never below
\* 0; and a request is issued only when the counter is 0.  So 60 ticks lie
\* between a SYSTEM_BUSY failure and the next request.
C24_CooldownBlocksRequests ==
    [](cooldownRemaining >= 0 /\ cooldownRemaining <= CooldownSeconds)
    /\ [][C24_CooldownStep]_vars

\* C24 witness: 59 ticks after a SYSTEM_BUSY failure an image and a mask are
\* there and nothing is being processed, yet the counter is still 1.
C24_Witness ==
    /\ cooldownRemaining = 1
    /\ currentImage # NullImage
    /\ maskDataUrl # NullMask
    /\ ~isProcessing
    /\ Len(currentImage.edits) < MaxEdits

C27_AppendStep ==
    \A i \in 1..Len(calls) :
        CompositeResolves(i) => history # <<>> /\ calls[i].args[1] = Last(history)

\* C27: when a removal succeeds, the image handed to removeObject and to
\* compositeSurgicalResult is the last entry of history at the moment the
\* result is appended.
C27_ResultFollowsItsSource == [][C27_AppendStep]_vars

\* C28: every removal that is started ends: isProcessing, once true, is
\* false again later, whichever way removeObject and the composite settle.
C28_LockReleased == isProcessing ~> ~isProcessing

\* C28 witness: a removal failed with SYSTEM_BUSY, its retries used up, and
\* the lock is released; no edit was made.
C28_Witness ==
    /\ ~isProcessing
    /\ calls = <<>>
    /\ cooldownRemaining = CooldownSeconds
    /\ Len(history) = 1
    /\ maskDataUrl # NullMask

(***************************************************************************)
(* Claims about callWithRetry, checked under SpecRetry and SpecRetryFair.  *)
(***************************************************************************)
RetryDone == retryPc \in {"returned", "thrown"}

\* A rate-limit error as the statement describes it: status 429 or a message
\* holding "429" or "Too many requests".
RateLimitError(e) ==
    /\ e.kind = "error"
    /\ \/ e.status = 429
       \/ e.hasMessage /\ Includes(e.message, "429")
       \/ e.hasMessage /\ Includes(e.message, "Too many requests")

C25_Outcome ==
    /\ Len(fnLog) <= maxRetries
    /\ \A k \in 1..(Len(fnLog) - 1) : RateLimitError(fnLog[k])
    /\ retryPc = "returned" => fnLog # <<>> /\ retryResult = Last(fnLog)
                               /\ retryResult.kind = "response"
    /\ retryPc = "thrown" /\ fnLog # <<>> =>
          /\ retryResult = Last(fnLog)
          /\ retryResult.kind = "error"
          /\ RateLimitError(retryResult) => Len(fnLog) = maxRetries
    /\ fnLog # <<>> /\ Last(fnLog).kind = "response" => retryPc = "returned"
    /\ fnLog # <<>> /\ Last(fnLog).kind = "error" /\ ~RateLimitError(Last(fnLog)) =>
          retryPc = "thrown" /\ Len(waits) = Len(fnLog) - 1

\* C25: in both versions and for every maxRetries (3 and 2, the defaults,
\* among them) fn is invoked at most maxRetries times; every invocation but
\* the last ended in a rate-limit error; a response is returned at once; any
\* other error is thrown at once, with no wait after it; a rate-limit error
\* is thrown only when it ended invocation number maxRetries; and when fn
\* always settles and each sleep ends, the call returns or throws.
C25_RetryTerminates == []C25_Outcome /\ <>RetryDone

\* C25 witness: the services version with its default maxRetries threw the
\* rate-limit error of its third invocation of fn.
C25_Witness ==
    /\ tier = "services"
    /\ maxRetries = DefaultMaxRetries("services")
    /\ retryPc = "thrown"
    /\ Len(fnLog) = 3
    /\ RateLimitError(retryResult)

\* C26: in services/geminiService.ts the k-th sleep lasts 2^k seconds, each
\* twice the one before; a sleep is only under way before another invocation
\* of fn, and when the call has ended there is one sleep less than there were
\* invocations: none follows the last.
C26_ExponentialBackoff ==
    tier = "services" =>
        /\ \A k \in 1..Len(waits) : waits[k] = 2^k * 1000
        /\ \A k \in 2..Len(waits) : waits[k] = 2 * waits[k - 1]
        /\ retryPc = "sleep" =>
              /\ waitTime = 2^(Len(waits) + 1) * 1000
              /\ Len(fnLog) < maxRetries
        /\ RetryDone /\ fnLog # <<>> => Len(waits) = Len(fnLog) - 1

\* C26 witness: with maxRetries 4 the services version slept 2 s, 4 s and
\* 8 s and then ended.
C26_Witness ==
    /\ tier = "services"
    /\ waits = <<2000, 4000, 8000>>
    /\ RetryDone

(***************************************************************************)
(* Claims about the editor's lock, checked under Spec and SpecOneImage.    *)
(***************************************************************************)

\* A step of startInteraction, of draw rasterizing a segment, of the export.
StartStep == \E pt \in ScreenPoints, coords \in Coords : StartInteraction(pt, coords)

DrawStep ==
    \E pt \in ScreenPoints, coords \in Coords, hw \in HalfWidths :
        HandleMove(pt, coords, hw) /\ path' # path

\* C4: from the moment handleRemove sets isProcessing until it clears it, no
\* stroke segment is rasterized into the mask canvas and no mask export is
\* delivered.
C4_NoMaskChangeStep == isProcessing => ~DrawStep /\ ~ExportTimerFires

C4_MaskFrozenWhileProcessing == [][C4_NoMaskChangeStep]_vars

\* C5: in every reachable state at most one removal is in flight, and no
\* stroke is active while a removal is in flight.
C5_SingleWriter ==
    /\ Len(calls) <= 1
    /\ calls # <<>> => ~isDrawing

\* C6: startInteraction while isProcessing is a no-op: it leaves isDrawing,
\* isPanning, lastPoint, lastPanPoint and the mask raster unchanged, and no
\* step taken while isProcessing starts a stroke or a pan.
C6_LockedStartStep ==
    isProcessing =>
        /\ StartStep => UNCHANGED <<isDrawing, isPanning, lastPoint, lastPanPoint, canvas, path>>
        /\ isDrawing' => isDrawing
        /\ isPanning' => isPanning

C6_LockedStartIsNoOp == [][C6_LockedStartStep]_vars

\* A removal is outstanding over a painted mask while the pointer is up: the
\* state in which a press on the image calls startInteraction under the lock.
C6_Witness ==
    /\ isProcessing
    /\ Interactive
    /\ ENABLED StartStep
    /\ toolMode = "BRUSH"
    /\ ~isDrawing /\ ~isPanning
    /\ lastPoint = NullPoint /\ lastPanPoint = NullPoint
    /\ \E p \in 1..Len(canvas) : canvas[p] = 255

C12_ExportStep ==
    /\ exportTimers' > exportTimers =>
          /\ isDrawing
          /\ ~isDrawing'
          /\ exportTimers' = exportTimers + 1
    /\ isDrawing /\ ~isDrawing' => exportTimers' = exportTimers + 1
    /\ EndInteraction => maskDataUrl' = maskDataUrl /\ canvas' = canvas
    /\ maskDataUrl' # maskDataUrl /\ maskDataUrl' # NullMask =>
          exportTimers' = exportTimers - 1

\* C12: endInteraction with no active stroke schedules no export and never
\* calls onUpdateMask: an export is scheduled only by the step that ends an
\* active stroke, that step schedules exactly one, endInteraction itself
\* changes neither the stored mask nor the raster, and each call of
\* onUpdateMask uses up one scheduled export.
C12_OneExportPerStroke == [][C12_ExportStep]_vars

\* C12 witness: a stroke that painted has ended, its export is scheduled and
\* endInteraction can be called again.
C12_Witness ==
    /\ Interactive
    /\ ~isDrawing
    /\ exportTimers = 1
    /\ \E p \in 1..Len(canvas) : canvas[p] = 255
    /\ ENABLED (EndInteraction /\ InEditor)

C15_MoveOutsideStep ==
    /\ \A pt \in ScreenPoints, hw \in HalfWidths :
          isDrawing /\ HandleMove(pt, NullPoint, hw) =>
              UNCHANGED <<canvas, path, lastPoint, isDrawing>>
    /\ isDrawing /\ ~isDrawing' => EndInteraction

\* C15: while a stroke is active, a pointer move that maps outside the image
\* (coords null) draws nothing: the raster, the path and lastPoint are
\* unchanged and isDrawing stays true; only endInteraction ends the stroke.
C15_MoveOutsideDrawsNothing == [][C15_MoveOutsideStep]_vars

\* C15 witness: a stroke is active and has painted, and the pointer can
\* still move.
C15_Witness ==
    /\ Interactive
    /\ isDrawing
    /\ ~isPanning
    /\ Len(path) < MaxStrokePoints
    /\ \E p \in 1..Len(canvas) : canvas[p] = 255

\* The mask is cleared: an upload has been read or a removal has succeeded.
ClearStep ==
    \/ \E f \in readers : ReaderOnload(f)
    \/ SuccessStep

C19_MaskLifeStep ==
    /\ ClearStep =>
          /\ maskDataUrl' = NullMask
          /\ \A p \in 1..Len(canvas') : canvas'[p] = 0
    /\ ExportTimerFires => staleExports = 0

\* C19: an upload or a successful removal leaves the stored mask empty
\* (maskDataUrl null, the raster all 0), and no export of a stroke begun
\* before such an event arrives after it.
C19_MaskEmptyUntilNewStroke == [][C19_MaskLifeStep]_vars

C20_ExportStep ==
    ExportTimerFires => maskDataUrl'[1] = NaturalWidthOf(currentImage)

\* C20: every exported mask is as wide as the image that is current when it
\* is exported.
C20_ExportHasCurrentSize == [][C20_ExportStep]_vars

(***************************************************************************)
(* Claims about painting and the mask's origin, checked under SpecStroke,  *)
(* SpecRepaint and SpecOrigin.                                             *)
(***************************************************************************)

C22_StrokeEndStep ==
    EndInteraction /\ isDrawing /\ toolMode = "BRUSH" /\ maskDataUrl = NullMask =>
        \A k \in 1..Len(path) : canvas[path[k]] = 255

\* C22: when a paint stroke on the empty mask ends, the mask is 255 at
\* every point that was supplied to the stroke: the begin point and each
\* extend point, the last one included, also when the pointer never moved.
C22_SuppliedPointsPainted == [][C22_StrokeEndStep]_vars

C29_ExportStep ==
    exportTimers' < exportTimers => \A p \in ideal : maskDataUrl'[p + 1] = 255

\* C29: the mask exported when a stroke's timeout fires is white in every
\* column painted since the last clear (and not erased since).
C29_ExportKeepsPaint == [][C29_ExportStep]_vars

C30_RequestStep ==
    /\ RequestStep
    /\ \E p \in 2..Len(maskDataUrl) : maskDataUrl[p] = 255
    /\ maskImage # NullImage
    => maskImage = currentImage

\* C30: when a removal is requested with a mask that holds paint, the stroke
\* whose export stored the mask was painted on the image that is current.
C30_MaskPaintedOnCurrentImage == [][C30_RequestStep]_vars

(***************************************************************************)
(* Claims about the viewport and getCanvasCoordinates, checked under       *)
(* SpecViewport.                                                           *)
(***************************************************************************)

\* C13: with the canvas mounted, getCanvasCoordinates returns null for every
\* screen point outside the canvas's bounding rectangle, and a non-null
\* result is a point, the normalized position times the natural width, and
\* lies within [0, naturalSize].
C13_MappingInBounds ==
    currentImage # NullImage =>
        \A p \in ViewPoints :
            LET rect == RectOf(zoom, offset, displaySize)
                c == GetCanvasCoordinates(Px(p), rect, naturalSize)
            IN /\ 4 * p < rect.left \/ 4 * p > rect.left + rect.width => c = NullCoords
               /\ c # NullCoords =>
                     /\ c.kind = "point"
                     /\ c.num * rect.width = (4 * p - rect.left) * naturalSize * c.den
                     /\ 0 <= c.num
                     /\ c.num <= naturalSize * c.den

ClaimedZooms == {2, 5, 10}
ClaimedOffsets == {0, 50, -30}

\* C14: for a loaded image, every zoom in {1, 2.5, 5} (and the current one)
\* and every offset in {0, 50, -30} (and the current one), the screen
\* position the transform gives the natural-space point x maps back to x.
C14_RoundTrip ==
    currentImage # NullImage /\ naturalSize > 0 /\ displaySize > 0 =>
        \A z \in ClaimedZooms \cup {zoom}, o \in ClaimedOffsets \cup {offset},
           x \in 0..naturalSize :
            LET c == GetCanvasCoordinates(ToScreen(x, z, o, displaySize, naturalSize),
                                          RectOf(z, o, displaySize), naturalSize)
            IN c.kind = "point" /\ c.num = x * c.den

\* C14 witness: a two pixel wide image is shown at zoom 2.5, panned by 50.
C14_Witness ==
    /\ currentImage # NullImage
    /\ naturalSize = 2
    /\ displaySize > 0
    /\ zoom = 5
    /\ offset = 50

\* C16: zoom lies within [1, 5] (2..10 in halves) in every reachable state.
C16_ZoomInRange == 2 <= zoom /\ zoom <= 10

\* C16 witness: the second image has loaded and was zoomed in to the maximum.
C16_Witness ==
    /\ naturalSize = 2
    /\ zoom = 10

C17_ZoomStep ==
    \A delta \in ZoomDeltas :
        HandleZoom(delta) =>
            /\ zoom' <= 2 => offset' = 0
            /\ zoom' > 2 => offset' = offset

\* C17: after a handleZoom whose resulting zoom is <= 1 the offset is 0; a
\* handleZoom whose resulting zoom is > 1 leaves the offset unchanged.
C17_ZoomOutResetsOffset == [][C17_ZoomStep]_vars

\* C17 witness: the image is panned at zoom 1.5, one zoom-out from zoom 1.
C17_Witness ==
    /\ Interactive
    /\ zoom = 3
    /\ offset # 0

C18_LoadStep ==
    (\E img \in imageLoads : ImageOnload(img)) => zoom' = 2 /\ offset' = 0

\* C18: when an image finishes loading in the editor the viewport becomes
\* the identity (zoom 1, offset 0), whatever the zoom and pan before.
C18_LoadResetsViewport == [][C18_LoadStep]_vars

\* C18 witness: an image is loading while the view is zoomed and panned.
C18_Witness ==
    /\ imageLoads # {}
    /\ zoom > 2
    /\ offset # 0

NaturalWidths == {1, 2, 640}
DisplayWidths == {320, 333}

DerivedAlpha(i) == MaskProc(originalImg, maskImg)[i][4]
AiResampled(i) == Resample(aiImg, Len(originalImg))[i]

\* C1: once the composite has resolved, every pixel whose derived mask alpha
\* is 0 equals the original's pixel in all four channels, whatever the AI
\* result holds there.
C1_PixelPreservation ==
    promise = "resolved" =>
        \A i \in 1..Len(originalImg) :
            DerivedAlpha(i) = 0 => resolved[i] = originalImg[i]

\* C1 witness: a resolved composite with a preserved pixel under a mask
\* pixel that is not pure black, beside a replaced pixel.
C1_Witness ==
    /\ promise = "resolved"
    /\ \E i, j \in 1..Len(originalImg) :
          /\ DerivedAlpha(i) = 0
          /\ Resample(maskImg, Len(originalImg))[i] # Black
          /\ AiResampled(i) # originalImg[i]
          /\ DerivedAlpha(j) = 255

C8_ResolvedOnlyWhenComplete ==
    /\ promise = "resolved" =>
          /\ \A n \in ImageNames : imgStatus[n] = "loaded"
          /\ ctxAcquired = ContextNames
          /\ Len(resolved) = Len(originalImg)
    /\ (\E n \in ImageNames : imgStatus[n] = "error") => promise = "rejected"
    /\ (loadedCount = 3 /\ ctxAcquired # ContextNames) => promise = "rejected"
    /\ promise = "pending" => resolved = <<>>

C8_SettlesOnce ==
    promise # "pending" => (promise' = promise /\ resolved' = resolved)

C8_CompositeSettles == [] C8_ResolvedOnlyWhenComplete /\ [][C8_SettlesOnce]_vars

\* C8 witness: reject was called for two failed decodes after one image
\* had loaded; the promise is rejected.
C8_Witness ==
    /\ promise = "rejected"
    /\ loadedCount = 1
    /\ Cardinality({n \in ImageNames : imgStatus[n] = "error"}) = 2

=============================================================================
